---- MODULE Spec2Model ----
(***************************************************************************)
(* Verification model of the Tenderly Virtual TestNet GitHub action:       *)
(*   - src/foundry-logs.ts     parseDeploymentLogs (log scanner and        *)
(*                             chain-id correlation)                       *)
(*   - src/cleanup.ts          cleanup, persistDeploymentInfo, push,       *)
(*                             pauseVirtualTestNet (the post step)         *)
(*   - src/deployment-info.ts  the infrastructure snapshot store           *)
(* Texts are sequences of one-character strings, so that the string        *)
(* operations of the code (includes, trim, split, match, parseInt,         *)
(* toString) are computed on characters, as the code computes them.        *)
(***************************************************************************)
EXTENDS Integers, Sequences, FiniteSets

(***************************************************************************)
(* JavaScript values that the scanner stores in a Contract's fields.       *)
(* undefined: the key is absent; null: the key is present and holds null.  *)
(***************************************************************************)
Undefined == [t |-> "undefined", s |-> <<>>, n |-> 0]
Null == [t |-> "null", s |-> <<>>, n |-> 0]
NaN == [t |-> "NaN", s |-> <<>>, n |-> 0]
Str(chars) == [t |-> "string", s |-> chars, n |-> 0]
Num(k) == [t |-> "number", s |-> <<>>, n |-> k]

\* JavaScript truthiness of a value: undefined, null, NaN, '' and 0 are falsy.
Truthy(v) ==
  CASE v.t = "string" -> v.s # <<>>
    [] v.t = "number" -> v.n # 0
    [] OTHER -> FALSE

\* a || b
OrElse(a, b) == IF Truthy(a) THEN a ELSE b

(***************************************************************************)
(* String primitives.                                                      *)
(***************************************************************************)
\* TLA+ strings cannot hold a backtick: Tick stands for it in every text and
\* in the patterns quoted in the comments below.
Tick == "'"
WhiteSpace == {" ", "\t", "\r"}
Digits == {"0", "1", "2", "3", "4", "5", "6", "7", "8", "9"}
HexLetters == {"a", "b", "c", "d", "e", "f", "A", "B", "C", "D", "E", "F"}

DigitValue(c) ==
  CASE c = "0" -> 0 [] c = "1" -> 1 [] c = "2" -> 2 [] c = "3" -> 3
    [] c = "4" -> 4 [] c = "5" -> 5 [] c = "6" -> 6 [] c = "7" -> 7
    [] c = "8" -> 8 [] c = "9" -> 9
    [] c \in {"a", "A"} -> 10 [] c \in {"b", "B"} -> 11
    [] c \in {"c", "C"} -> 12 [] c \in {"d", "D"} -> 13
    [] c \in {"e", "E"} -> 14 [] c \in {"f", "F"} -> 15

DigitChar(d) == <<"0", "1", "2", "3", "4", "5", "6", "7", "8", "9">>[d + 1]

\* s.substring(i - 1), 1-based: the characters of s from position i on.
From(s, i) == SubSeq(s, i, Len(s))

\* p occurs in s at position i
OccursAt(s, p, i) ==
  /\ i >= 1
  /\ i + Len(p) - 1 <= Len(s)
  /\ p = <<>> \/ s[i] = p[1]
  /\ SubSeq(s, i, i + Len(p) - 1) = p

\* s.indexOf(p) + 1: the first position where p occurs in s, 0 when none.
IndexOfSub(s, p) ==
  LET hits == {i \in 1..(Len(s) + 1) : OccursAt(s, p, i)}
  IN  IF hits = {} THEN 0 ELSE CHOOSE i \in hits : \A j \in hits : i <= j

\* s.includes(p)
Includes(s, p) == IndexOfSub(s, p) # 0

\* The length of the longest prefix of s whose characters all lie in set.
RECURSIVE RunLength(_, _)
RunLength(s, set) ==
  IF s # <<>> /\ Head(s) \in set THEN 1 + RunLength(Tail(s), set) ELSE 0

\* The length of the longest suffix of s whose characters all lie in set.
RECURSIVE RunLengthBack(_, _)
RunLengthBack(s, set) ==
  IF s # <<>> /\ s[Len(s)] \in set
  THEN 1 + RunLengthBack(SubSeq(s, 1, Len(s) - 1), set)
  ELSE 0

\* s.trim()
Trim(s) ==
  LET lead == RunLength(s, WhiteSpace)
  IN  IF lead = Len(s) THEN <<>>
      ELSE SubSeq(s, lead + 1, Len(s) - RunLengthBack(s, WhiteSpace))

\* s.split(c) for a one-character separator c: the segments between the c's.
RECURSIVE Split(_, _)
Split(s, c) ==
  LET i == IndexOfSub(s, <<c>>)
  IN  IF i = 0 THEN <<s>>
      ELSE <<SubSeq(s, 1, i - 1)>> \o Split(From(s, i + 1), c)

\* The value of a string of digits in the given radix.
RECURSIVE DigitsValue(_, _)
DigitsValue(s, radix) ==
  IF s = <<>> THEN 0
  ELSE DigitsValue(SubSeq(s, 1, Len(s) - 1), radix) * radix + DigitValue(s[Len(s)])

\* parseInt(v) with no radix: undefined gives NaN; leading white space is
\* skipped, then an optional sign, an optional 0x/0X prefix (radix 16), then
\* the longest run of digits; no digit gives NaN.  Trailing text is ignored.
ParseInt(v) ==
  IF v.t # "string" THEN NaN
  ELSE
    LET s0 == From(v.s, RunLength(v.s, WhiteSpace) + 1)
        signed == s0 # <<>> /\ Head(s0) \in {"-", "+"}
        neg == s0 # <<>> /\ Head(s0) = "-"
        s1 == IF signed THEN Tail(s0) ELSE s0
        hex == OccursAt(s1, <<"0", "x">>, 1) \/ OccursAt(s1, <<"0", "X">>, 1)
        s2 == IF hex THEN From(s1, 3) ELSE s1
        set == IF hex THEN Digits \cup HexLetters ELSE Digits
        k == RunLength(s2, set)
        mag == DigitsValue(SubSeq(s2, 1, k), IF hex THEN 16 ELSE 10)
    IN  IF k = 0 THEN NaN ELSE Num(IF neg THEN 0 - mag ELSE mag)

\* n.toString() of a non-negative integer: its decimal digits.
RECURSIVE NumberToString(_)
NumberToString(n) ==
  IF n < 10 THEN <<DigitChar(n)>>
  ELSE NumberToString(n \div 10) \o <<DigitChar(n % 10)>>

(***************************************************************************)
(* The texts the scanner looks for (src/foundry-logs.ts, lines 420-447).   *)
(***************************************************************************)
SectionMarker == <<"#","#">>
StartMarker == <<"S","t","a","r","t"," ","v","e","r","i","f","y","i","n","g"," ","c","o","n","t","r","a","c","t">>
CompilerMarker == <<"C","o","m","p","i","l","e","r"," ","v","e","r","s","i","o","n",":">>
OptimizationsMarker == <<"O","p","t","i","m","i","z","a","t","i","o","n","s",":">>
SubmittingMarker == <<"S","u","b","m","i","t","t","i","n","g"," ","v","e","r","i","f","i","c","a","t","i","o","n"," ","f","o","r">>
StatusMarker == <<"C","o","n","t","r","a","c","t"," ","v","e","r","i","f","i","c","a","t","i","o","n"," ","s","t","a","t","u","s",":">>
DeployedOn == <<"d","e","p","l","o","y","e","d"," ","o","n"," ">>
ResponseOpen == <<"R","e","s","p","o","n","s","e",":"," ",Tick>>

\* The least and the greatest element of a non-empty set of integers.
Min(S) == CHOOSE i \in S : \A j \in S : i <= j
Max(S) == CHOOSE i \in S : \A j \in S : i >= j

\* line.match(/'(0x[a-fA-F0-9]+)'/)?.[1]: the leftmost backtick followed by
\* 0x, one or more hex digits and a backtick; the capture is 0x and the digits.
MatchAddress(line) ==
  LET hexRun(i) == RunLength(From(line, i + 3), Digits \cup HexLetters)
      hits == {i \in 1..Len(line) :
                 /\ OccursAt(line, <<Tick, "0", "x">>, i)
                 /\ hexRun(i) >= 1
                 /\ OccursAt(line, <<Tick>>, i + 3 + hexRun(i))}
  IN  IF hits = {} THEN Undefined
      ELSE Str(SubSeq(line, Min(hits) + 1, Min(hits) + 2 + hexRun(Min(hits))))

\* line.match(/deployed on (\d+)/)?.[1]
MatchDeployedOn(line) ==
  LET digitRun(i) == RunLength(From(line, i + Len(DeployedOn)), Digits)
      hits == {i \in 1..Len(line) : OccursAt(line, DeployedOn, i) /\ digitRun(i) >= 1}
      at == Min(hits) + Len(DeployedOn)
  IN  IF hits = {} THEN Undefined
      ELSE Str(SubSeq(line, at, at + digitRun(Min(hits)) - 1))

\* line.match(/\[(.*?)\]/): the leftmost [ and the first ] after it; the
\* capture is the text between them.  Undefined stands for a null match.
MatchBracket(line) ==
  LET open == IndexOfSub(line, <<"[">>)
      close == IndexOfSub(From(line, open + 1), <<"]">>)
  IN  IF open = 0 \/ close = 0 THEN Undefined
      ELSE Str(SubSeq(line, open + 1, open + close - 1))

\* v?.match(/Response: '(.+)'/)?.[1]: the leftmost "Response: '" that has a
\* later backtick with at least one character in between; .+ is greedy, so
\* the capture runs to the last backtick of the line.
MatchResponse(v) ==
  IF v.t # "string" THEN Undefined
  ELSE
    LET line == v.s
        ticks == {j \in 1..Len(line) : line[j] = Tick}
        hits == {i \in 1..Len(line) :
                   /\ OccursAt(line, ResponseOpen, i)
                   /\ \E j \in ticks : j > i + Len(ResponseOpen)}
    IN  IF hits = {} THEN Undefined
        ELSE Str(SubSeq(line, Min(hits) + Len(ResponseOpen), Max(ticks) - 1))

\* line.split(':')[1]?.trim()
AfterColonTrimmed(line) ==
  LET parts == Split(line, ":")
  IN  IF Len(parts) >= 2 THEN Str(Trim(parts[2])) ELSE Undefined

\* lines.indexOf(line) + 1: the position of the first element equal to line.
IndexOf(lines, line) ==
  LET hits == {i \in 1..Len(lines) : lines[i] = line}
  IN  IF hits = {} THEN 0 ELSE Min(hits)

\* lines[k - 1] of the code, 1-based here: undefined outside the array.
ElementAt(lines, k) ==
  IF k \in 1..Len(lines) THEN Str(lines[k]) ELSE Undefined

(***************************************************************************)
(* A Contract under construction (Partial<Contract>): every key is either  *)
(* Absent (not a key of the object) or holds a JavaScript value.           *)
(***************************************************************************)
Absent == [t |-> "absent", s |-> <<>>, n |-> 0]
ContractKeys ==
  {"address", "chain", "verificationStatus", "compiler", "optimizations",
   "contractPath", "contractName"}
EmptyContract == [k \in ContractKeys |-> Absent]

\* Object.keys(contract).length
KeyCount(contract) == Cardinality({k \in ContractKeys : contract[k] # Absent})

\* Object.keys(currentContract).length > 0 (lines 427 and 452)
HasKeys(contract) == KeyCount(contract) > 0

\* The object literal of lines 430-434.
OpenContract(line) ==
  [EmptyContract EXCEPT
     !["address"] = OrElse(MatchAddress(line), Str(<<>>)),
     !["chain"] = OrElse(MatchDeployedOn(line), Str(<<>>)),
     !["verificationStatus"] = Null]

\* Lines 440-445: the bracketed token split on ':'; no bracket, no change.
WithSubmitted(contract, line) ==
  LET m == MatchBracket(line)
      parts == Split(m.s, ":")
  IN  IF m = Undefined THEN contract
      ELSE [contract EXCEPT
              !["contractPath"] = Str(parts[1]),
              !["contractName"] =
                 IF Len(parts) >= 2 THEN Str(parts[2]) ELSE Undefined]

\* Line 447: the status is looked up in the line after the first line of
\* the file that equals this one.
StatusLookahead(lines, line) ==
  OrElse(MatchResponse(ElementAt(lines, IndexOf(lines, line) + 1)), Null)

\* Line 438
ParseOptimizations(line) == OrElse(ParseInt(AfterColonTrimmed(line)), Null)

\* Line 436
ParseCompiler(line) == OrElse(AfterColonTrimmed(line), Null)

\* What one line of the section does (lines 426-448), as the kind of the
\* first branch of the if / else-if chain whose test the line passes.
LineKind(line) ==
  CASE Includes(line, StartMarker) -> "start"
    [] Includes(line, CompilerMarker) -> "compiler"
    [] Includes(line, OptimizationsMarker) -> "optimizations"
    [] Includes(line, SubmittingMarker) -> "submitting"
    [] Includes(line, StatusMarker) -> "status"
    [] OTHER -> "other"

\* line.trim() === '##' (line 420)
IsSectionLine(line) == Trim(line) = SectionMarker

\* currentContract after a line of the section.
ContractAfter(contract, lines, line) ==
  LET kind == LineKind(line)
  IN  CASE kind = "start" -> OpenContract(line)
        [] kind = "compiler" ->
             [contract EXCEPT !["compiler"] = ParseCompiler(line)]
        [] kind = "optimizations" ->
             [contract EXCEPT !["optimizations"] = ParseOptimizations(line)]
        [] kind = "submitting" -> WithSubmitted(contract, line)
        [] kind = "status" ->
             [contract EXCEPT !["verificationStatus"] = StatusLookahead(lines, line)]
        [] OTHER -> contract

\* Faulty variant of Flushed: the open contract goes to the front of the list.
FlushedFirst(list, contract) ==
  IF HasKeys(contract) THEN <<contract>> \o list ELSE list

\* contracts after the push of lines 427-429: the open contract goes to the
\* end of the list.
Flushed(list, contract) ==
  IF HasKeys(contract) THEN Append(list, contract) ELSE list

\* Faulty variant of ContractsAfter: the record pushed last is still the
\* object the field lines write to.
ContractsAfterShared(list, contract, lines, line) ==
  IF LineKind(line) = "start" THEN Flushed(list, contract)
  ELSE IF list = <<>> THEN list
  ELSE [list EXCEPT ![Len(list)] = ContractAfter(list[Len(list)], lines, line)]

\* contracts after a line of the section: a start line pushes the open
\* contract (lines 427-429) and currentContract becomes a new object; the
\* other lines assign to currentContract only (lines 435-448).
ContractsAfter(list, contract, lines, line) ==
  IF LineKind(line) = "start" THEN Flushed(list, contract) ELSE list

\* Faulty variant of EndContracts: no push at the end of the file.
EndContractsDropped(list, contract) == list

\* contracts after the push at the end of the file (lines 452-454).
EndContracts(list, contract) ==
  IF HasKeys(contract) THEN Append(list, contract) ELSE list

(***************************************************************************)
(* The lines forge writes to a build output file, as the scanner expects   *)
(* them (the patterns of lines 426-447).                                   *)
(***************************************************************************)
StartLine(address, chain) ==
  StartMarker \o <<" ", Tick>> \o address \o <<Tick, " ">> \o DeployedOn \o chain
CompilerLine(version) == CompilerMarker \o <<" ">> \o version
OptimizationsLine(runs) == OptimizationsMarker \o <<" ", " ", " ", " ">> \o runs
SubmittingLine(path, name, address) ==
  SubmittingMarker \o <<" ", "[">> \o path \o <<":">> \o name \o <<"]", " ">>
    \o address \o <<".">>
StatusLine == StatusMarker
ResponseLine(status) == ResponseOpen \o status \o <<Tick>>

\* lines.join('\n'): the content of a file holding these lines.
RECURSIVE JoinLines(_)
JoinLines(ls) ==
  IF ls = <<>> THEN <<>>
  ELSE IF Len(ls) = 1 THEN ls[1]
  ELSE ls[1] \o <<"\n">> \o JoinLines(Tail(ls))

AddressA == <<"0","x","A","1">>
AddressB == <<"0","x","B","2">>
Chain1 == <<"1">>
Chain12 == <<"1","2">>
Version == <<"0",".","8",".","1","9">>
PathA == <<"s","r","c","/","A",".","s","o","l">>
NameA == <<"A">>
StatusOK == <<"O","K">>
StatusNOTOK == <<"N","O","T","O","K">>

(***************************************************************************)
(* File names of the scratch directory and path.extname.                   *)
(***************************************************************************)
FileA == <<"a",".","j","s","o","n">>
FileB == <<"b",".","j","s","o","n">>
FileC == <<"c",".","t","x","t">>
JsonExt == <<".","j","s","o","n">>

\* path.extname(file): from the last '.' of the name to its end; '' when
\* the name has no '.' or only a leading one.
ExtName(file) ==
  LET dots == {i \in 1..Len(file) : file[i] = "."}
  IN  IF dots = {} \/ Max(dots) = 1 THEN <<>> ELSE From(file, Max(dots))

\* files.filter(file => path.extname(file) === '.json') (line 394)
RECURSIVE JsonFilesOf(_)
JsonFilesOf(files) ==
  IF files = <<>> THEN <<>>
  ELSE (IF ExtName(Head(files)) = JsonExt THEN <<Head(files)>> ELSE <<>>)
         \o JsonFilesOf(Tail(files))

(***************************************************************************)
(* The infrastructure snapshot (InfrastructureInfo) and its file.          *)
(* networks lists Object.values(infra.networks) in iteration order.        *)
(***************************************************************************)
Net1 == [id |-> "vnet-1", networkId |-> "1", chainId |-> 1]
Net12 == [id |-> "vnet-12", networkId |-> "12", chainId |-> 12]
\* A network whose creation response carried no id (data.id, line 74).
NetNoId == [id |-> "", networkId |-> "5", chainId |-> 5]

\* The scratch directory and its files.
File(name, content) == [name |-> name, content |-> content]
Dir(files) == [exists |-> TRUE, files |-> files]
NoDir == [exists |-> FALSE, files |-> <<>>]

\* The snapshot file on disk.
Stored(networks) == [state |-> "stored", networks |-> networks]
NoFile == [state |-> "absent", networks |-> <<>>]
Malformed == [state |-> "malformed", networks |-> <<>>]

NoInfra == [present |-> FALSE, networks |-> <<>>]
Infra(networks) == [present |-> TRUE, networks |-> networks]

\* Faulty variant of MissingInfra: a missing snapshot is not noticed.
MissingInfraIgnored(info) == FALSE

\* !infraInfo (line 406)
MissingInfra(info) == ~info.present

\* How a call ends: with a value, or with a thrown error.
Returns(value) == [threw |-> FALSE, message |-> "", value |-> value]
Throws(message) == [threw |-> TRUE, message |-> message, value |-> NoInfra]

\* Lines 747-748: fs.readFile rejects when the file is missing or cannot be
\* read, JSON.parse throws on a text that is not JSON.
ReadAndParse(file, readFails) ==
  IF file.state = "absent" THEN Throws("ENOENT: open infra file")
  ELSE IF readFails THEN Throws("EIO: read infra file")
  ELSE IF file.state = "malformed" THEN Throws("Unexpected token in JSON")
  ELSE Returns(Infra(file.networks))

\* The inner catch (lines 749-752): debug message, return null.
InnerCatch(outcome) == IF outcome.threw THEN Returns(NoInfra) ELSE outcome

\* The outer catch (lines 753-757): warning, return null.
OuterCatch(outcome) == IF outcome.threw THEN Returns(NoInfra) ELSE outcome

\* Faulty variant of readInfraForCurrentJob: nothing is caught.
ReadInfraUncaught(file, readFails) == ReadAndParse(file, readFails)

\* readInfraForCurrentJob (lines 744-758)
readInfraForCurrentJob(file, readFails) ==
  OuterCatch(InnerCatch(ReadAndParse(file, readFails)))

\* The value readInfraForCurrentJob returns: the parsed file; null when the
\* file cannot be read or its text is not JSON.
ReadInfra(file, readFails) == readInfraForCurrentJob(file, readFails).value

(***************************************************************************)
(* Correlation of one file's contracts with the snapshot (lines 456-468).  *)
(***************************************************************************)
\* Faulty variant of ChainMatches: every record that has a chain matches.
ChainMatchesLoosely(contract, network) == contract["chain"].t = "string"

\* contract.chain === network.chainId.toString()
ChainMatches(contract, network) ==
  contract["chain"] = Str(NumberToString(network.chainId))

MatchingContracts(list, network) ==
  SelectSeq(list, LAMBDA c : ChainMatches(c, network))

\* Faulty variant of EmitsGroup: a group for every network.
EmitsGroupAlways(matching) == Len(matching) >= 0

\* matchingContracts.length > 0 (line 462)
EmitsGroup(matching) == Len(matching) > 0

RECURSIVE GroupsOf(_, _)
GroupsOf(list, networks) ==
  IF networks = <<>> THEN <<>>
  ELSE (IF EmitsGroup(MatchingContracts(list, Head(networks)))
        THEN <<[virtualTestNet |-> Head(networks),
                contracts |-> MatchingContracts(list, Head(networks))]>>
        ELSE <<>>)
         \o GroupsOf(list, Tail(networks))

(***************************************************************************)
(* The key of a run (src/deployment-info.ts, lines 733-766).               *)
(***************************************************************************)
UpperCase ==
  <<"A", "B", "C", "D", "E", "F", "G", "H", "I", "J", "K", "L", "M",
    "N", "O", "P", "Q", "R", "S", "T", "U", "V", "W", "X", "Y", "Z">>
LowerCase ==
  <<"a", "b", "c", "d", "e", "f", "g", "h", "i", "j", "k", "l", "m",
    "n", "o", "p", "q", "r", "s", "t", "u", "v", "w", "x", "y", "z">>
RangeOf(seq) == {seq[i] : i \in 1..Len(seq)}

\* \s of a regular expression
RegexSpace == {" ", "\t", "\n", "\r", "\f"}

\* [a-zA-Z0-9-]
FileNameChars == RangeOf(UpperCase) \cup RangeOf(LowerCase) \cup Digits \cup {"-"}

\* .replace(/\//g, '-') (line 762)
ReplaceSlashes(name) == [i \in 1..Len(name) |-> IF name[i] = "/" THEN "-" ELSE name[i]]

\* .replace(/\s+/g, '-') (line 763): each longest run of white space
\* becomes one hyphen.
RECURSIVE ReplaceSpaces(_)
ReplaceSpaces(name) ==
  IF name = <<>> THEN <<>>
  ELSE IF Head(name) \in RegexSpace
  THEN <<"-">> \o ReplaceSpaces(From(name, RunLength(name, RegexSpace) + 1))
  ELSE <<Head(name)>> \o ReplaceSpaces(Tail(name))

\* .replace(/[^a-zA-Z0-9-]/g, '') (line 764)
RemoveOthers(name) == SelectSeq(name, LAMBDA c : c \in FileNameChars)

\* Faulty variant of ToLowerCase: the case is kept.
KeepCase(name) == name

\* .toLowerCase() (line 765)
ToLowerCase(name) ==
  [i \in 1..Len(name) |->
     IF name[i] \in RangeOf(UpperCase)
     THEN LowerCase[CHOOSE k \in 1..Len(UpperCase) : UpperCase[k] = name[i]]
     ELSE name[i]]

\* sanitizeFileName (lines 760-766)
sanitizeFileName(name) ==
  ToLowerCase(RemoveOthers(ReplaceSpaces(ReplaceSlashes(name))))

\* currentJobFileBasename (lines 733-737) for a github.context
currentJobFileBasename(context) ==
  sanitizeFileName(NumberToString(context.runNumber) \o <<"-">>
                     \o context.workflow \o <<"-">> \o context.job)

\* infraFileForCurrentJob (lines 739-742): the path below infraDir()
\* infraDir() (line 673), relative to the workspace, with the separator
InfraDirPath == <<".","t","e","n","d","e","r","l","y","/","i","n","f","r","a","/">>

\* infraFileForCurrentJob (lines 739-742)
infraFileForCurrentJob(context) ==
  InfraDirPath \o currentJobFileBasename(context) \o JsonExt

(***************************************************************************)
(* State.                                                                  *)
(***************************************************************************)
VARIABLES
  tmpDir,                 \* the scratch directory: does it exist, its files
  infraFile,              \* the snapshot file of the current job
  pc,                     \* where parseDeploymentLogs stands
  jsonFiles,              \* parseDeploymentLogs: jsonFiles
  fileIdx,                \* position of the for loop over jsonFiles
  lines,                  \* lines of the file being scanned
  lineIdx,                \* position of the for loop over lines
  currentContract,        \* parseDeploymentLogs: currentContract
  contracts,              \* parseDeploymentLogs: contracts
  isInDeploymentSection,  \* parseDeploymentLogs: isInDeploymentSection
  infraInfo,              \* parseDeploymentLogs: infraInfo
  deploymentGroups,       \* parseDeploymentLogs: deploymentGroups
  parsed,                 \* how parseDeploymentLogs ended and its report
  scanned,                \* history: the files read, in order
  emitted                 \* history: contracts of each scanned file at its end

scanVars ==
  <<tmpDir, infraFile, pc, jsonFiles, fileIdx, lines, lineIdx, currentContract,
    contracts, isInDeploymentSection, infraInfo, deploymentGroups, parsed,
    scanned, emitted>>

VARIABLES
  mode,            \* core.getInput('mode').toUpperCase()
  pushOnComplete,  \* core.getBooleanInput('push_on_complete')
  cpc,             \* where cleanup stands
  cleanupInfra,    \* cleanup: infra
  checkout,        \* the git checkout started by clearSensitiveData
  rmTask,          \* the fs.rm of the scratch directory
  writeState,      \* the fs.writeFile of the deployments artifact
  artifact,        \* the deployments artifact on disk
  warnings,        \* messages given to core.warning
  proc,            \* the node process of the post step
  pushIdx,         \* position in the steps of push
  execLog,         \* history: the git commands push has run
  stops            \* the stop request of each network of the snapshot

postVars ==
  <<mode, pushOnComplete, cpc, cleanupInfra, checkout, rmTask, writeState,
    artifact, warnings, proc, pushIdx, execLog, stops>>

VARIABLES
  contexts,        \* github.context of two jobs that use the action
  store,           \* the files below infraDir(): path -> the job that wrote it
  seen             \* what each job read back from its own path

keyVars == <<contexts, store, seen>>

VARIABLES
  rpc,             \* where run, the main step, stands
  networkIds,      \* core.getMultilineInput("network_id")
  creates,         \* the createVirtualTestNet call of each network id
  networkInfo,     \* run: networkInfo, network id -> the creation it holds
  infraDir,        \* the directory infraDir()
  setFailed,       \* the message given to core.setFailed, '' when none
  configDone,      \* setupTenderlyConfig has written the config file
  persist,         \* history: how the storing of the snapshot went
  infraWrites,     \* history: the contents written to the snapshot file
  runWarnings      \* messages run gave to core.warning

provVars ==
  <<rpc, networkIds, creates, networkInfo, infraDir, setFailed, configDone,
    persist, infraWrites, runWarnings>>

\* The locals of parseDeploymentLogs.
scanLocals ==
  <<pc, jsonFiles, fileIdx, lines, lineIdx, currentContract, contracts,
    isInDeploymentSection, infraInfo, deploymentGroups, parsed, scanned,
    emitted>>

vars == <<scanVars, postVars, keyVars, provVars>>

\* github.context as the report records it (lines 396-401)
WorkflowInfo ==
  [runNumber |-> 7, workflow |-> "Deploy", job |-> "deploy", runId |-> 1001]

Pending == [state |-> "pending", error |-> "", workflow |-> WorkflowInfo, deployments |-> <<>>]
Threw(message) == [Pending EXCEPT !.state = "threw", !.error = message]
Returned(groups) == [Pending EXCEPT !.state = "returned", !.deployments = groups]

\* The content of a file of the scratch directory.
ContentOf(dir, file) ==
  (CHOOSE f \in {dir.files[i] : i \in 1..Len(dir.files)} : f.name = file).content

RECURSIVE NamesOf(_)
NamesOf(files) ==
  IF files = <<>> THEN <<>> ELSE <<Head(files).name>> \o NamesOf(Tail(files))

(***************************************************************************)
(* parseDeploymentLogs (lines 392-475), one action per await and per line. *)
(***************************************************************************)
\* Lines 393-394: fs.readdir throws when the directory cannot be listed.
ReadDir ==
  /\ pc = "readdir"
  /\ IF tmpDir.exists
     THEN /\ jsonFiles' = JsonFilesOf(NamesOf(tmpDir.files))
          /\ pc' = "readInfra"
          /\ parsed' = parsed
     ELSE /\ jsonFiles' = jsonFiles
          /\ pc' = "threw"
          /\ parsed' = Threw("ENOENT: scandir")
  /\ UNCHANGED <<tmpDir, infraFile, fileIdx, lines, lineIdx, currentContract,
                 contracts, isInDeploymentSection, infraInfo, deploymentGroups,
                 scanned, emitted>>
  /\ UNCHANGED postVars
  /\ UNCHANGED <<keyVars, provVars>>

\* Lines 403-408
ReadInfraInfo ==
  /\ pc = "readInfra"
  /\ \E readFails \in BOOLEAN :
       LET read == readInfraForCurrentJob(infraFile, readFails)
           info == read.value
       IN  /\ infraInfo' = info
           /\ IF read.threw
              THEN /\ pc' = "threw"
                   /\ parsed' = Threw(read.message)
                   /\ UNCHANGED <<fileIdx, deploymentGroups>>
              ELSE IF MissingInfra(info)
              THEN /\ pc' = "threw"
                   /\ parsed' = Threw("No infrastructure information found")
                   /\ UNCHANGED <<fileIdx, deploymentGroups>>
              ELSE /\ pc' = "file"
                   /\ fileIdx' = 1
                   /\ deploymentGroups' = <<>>
                   /\ parsed' = parsed
  /\ UNCHANGED <<tmpDir, infraFile, jsonFiles, lines, lineIdx, currentContract,
                 contracts, isInDeploymentSection, scanned, emitted>>
  /\ UNCHANGED postVars
  /\ UNCHANGED <<keyVars, provVars>>

\* Faulty variant of FreshSection: the flag of the file before is kept.
CarriedSection(previous) == previous

\* let isInDeploymentSection = false (line 417), declared inside the loop
\* over the files.
FreshSection(previous) == FALSE

\* Lines 410-417: the next file is read and split into lines; a failing
\* fs.readFile rejects parseDeploymentLogs.
ReadFile ==
  /\ pc = "file"
  /\ fileIdx <= Len(jsonFiles)
  /\ \E readFails \in BOOLEAN :
       IF readFails
       THEN /\ pc' = "threw"
            /\ parsed' = Threw("EIO: read")
            /\ UNCHANGED <<lines, lineIdx, currentContract, contracts,
                           isInDeploymentSection, scanned>>
       ELSE /\ lines' = Split(ContentOf(tmpDir, jsonFiles[fileIdx]), "\n")
            /\ lineIdx' = 1
            /\ currentContract' = EmptyContract
            /\ contracts' = <<>>
            /\ isInDeploymentSection' = FreshSection(isInDeploymentSection)
            /\ scanned' = Append(scanned, jsonFiles[fileIdx])
            /\ pc' = "line"
            /\ parsed' = parsed
  /\ UNCHANGED <<tmpDir, infraFile, jsonFiles, fileIdx, infraInfo,
                 deploymentGroups, emitted>>
  /\ UNCHANGED postVars
  /\ UNCHANGED <<keyVars, provVars>>

\* Lines 419-450: one iteration of the loop over the lines.
ScanLine ==
  /\ pc = "line"
  /\ lineIdx <= Len(lines)
  /\ LET line == lines[lineIdx]
     IN  IF IsSectionLine(line)
         THEN /\ isInDeploymentSection' = TRUE
              /\ UNCHANGED <<currentContract, contracts>>
         ELSE IF isInDeploymentSection
         THEN /\ contracts' = ContractsAfter(contracts, currentContract, lines, line)
              /\ currentContract' = ContractAfter(currentContract, lines, line)
              /\ UNCHANGED isInDeploymentSection
         ELSE UNCHANGED <<currentContract, contracts, isInDeploymentSection>>
  /\ lineIdx' = lineIdx + 1
  /\ UNCHANGED <<tmpDir, infraFile, pc, jsonFiles, fileIdx, lines, infraInfo,
                 deploymentGroups, parsed, scanned, emitted>>
  /\ UNCHANGED postVars
  /\ UNCHANGED <<keyVars, provVars>>

\* Lines 452-468: at the end of the file the open contract is pushed and
\* the file's contracts are matched with the networks of the snapshot.
EndOfFile ==
  /\ pc = "line"
  /\ lineIdx > Len(lines)
  /\ contracts' = EndContracts(contracts, currentContract)
  /\ deploymentGroups' = deploymentGroups \o GroupsOf(contracts', infraInfo.networks)
  /\ emitted' = Append(emitted, contracts')
  /\ fileIdx' = fileIdx + 1
  /\ pc' = "file"
  /\ UNCHANGED <<tmpDir, infraFile, jsonFiles, lines, lineIdx, currentContract,
                 isInDeploymentSection, infraInfo, parsed, scanned>>
  /\ UNCHANGED postVars
  /\ UNCHANGED <<keyVars, provVars>>

\* Lines 471-474
ReturnReport ==
  /\ pc = "file"
  /\ fileIdx > Len(jsonFiles)
  /\ parsed' = Returned(deploymentGroups)
  /\ pc' = "returned"
  /\ UNCHANGED <<tmpDir, infraFile, jsonFiles, fileIdx, lines, lineIdx,
                 currentContract, contracts, isInDeploymentSection, infraInfo,
                 deploymentGroups, scanned, emitted>>
  /\ UNCHANGED postVars
  /\ UNCHANGED <<keyVars, provVars>>

(***************************************************************************)
(* The post step: cleanup (src/cleanup.ts, lines 198-301).                 *)
(***************************************************************************)
\* A promise that nothing awaits and nothing catches rejects: node 20 raises
\* the unhandled rejection as an uncaught exception and the process exits
\* with code 1, whatever it was doing.
Crash ==
  /\ proc' = "crashed"
  /\ pc' = "dead"
  /\ cpc' = "dead"

\* JSON.stringify leaves out the keys that hold undefined.
SerializeContract(contract) ==
  [k \in ContractKeys |-> IF contract[k] = Undefined THEN Absent ELSE contract[k]]

RECURSIVE SerializeContracts(_)
SerializeContracts(list) ==
  IF list = <<>> THEN <<>>
  ELSE <<SerializeContract(Head(list))>> \o SerializeContracts(Tail(list))

RECURSIVE SerializeGroups(_)
SerializeGroups(groups) ==
  IF groups = <<>> THEN <<>>
  ELSE <<[virtualTestNet |-> Head(groups).virtualTestNet,
          contracts |-> SerializeContracts(Head(groups).contracts)]>>
         \o SerializeGroups(Tail(groups))

\* JSON.stringify(deploymentLogs, null, 2) (line 263), as the value a
\* reader of the file parses back.
Serialize(report) ==
  [workflow |-> report.workflow, deployments |-> SerializeGroups(report.deployments)]

NoArtifact == [written |-> FALSE, workflow |-> WorkflowInfo, deployments |-> <<>>]
Written(report) ==
  [written |-> TRUE, workflow |-> Serialize(report).workflow,
   deployments |-> Serialize(report).deployments]

\* Faulty variant of ShouldPersist: the report is written whatever it holds.
ShouldPersistAlways(report) == Len(report.deployments) >= 0

\* deploymentInfo.deployments.length > 0 (line 271)
ShouldPersist(report) == Len(report.deployments) > 0

\* The awaits of push, in order (lines 233-247); testnetLinks is awaited
\* while the commit message is built.
PushSteps ==
  <<"git config user.name", "git config user.email", "git remote set-url",
    "git add .", "testnetLinks", "git commit", "git reset --hard",
    "git pull --rebase", "git push">>

\* stopVirtualTestNet is called for the network (line 287); with an empty id
\* it throws before it calls axios.patch (line 129).
StopIssued(network) == IF network.id = "" THEN "failed" ELSE "pending"

RECURSIVE StopsIssued(_)
StopsIssued(networks) ==
  IF networks = <<>> THEN <<>>
  ELSE <<StopIssued(Head(networks))>> \o StopsIssued(Tail(networks))

\* core.warning of the catch of line 293 for the stops that have failed.
StopWarnings(networks, s) ==
  {"Failed to stop TestNet " \o networks[i].id : i \in {j \in 1..Len(s) : s[j] = "failed"}}

\* cleanup up to its first await (lines 199-203): clearSensitiveData is
\* called and not awaited.
CleanupStart ==
  /\ cpc = "start"
  /\ proc = "running"
  /\ checkout' = "running"
  /\ cpc' = "readInfra"
  /\ UNCHANGED <<mode, pushOnComplete, cleanupInfra, rmTask, writeState,
                 artifact, warnings, proc, pushIdx, execLog, stops>>
  /\ UNCHANGED scanVars
  /\ UNCHANGED <<keyVars, provVars>>

\* push up to its first await (lines 231-233), then lines 214-217 when push
\* returns at once.
EnterPush ==
  IF pushOnComplete
  THEN /\ cpc' = "pushing"
       /\ pushIdx' = 1
  ELSE /\ cpc' = "returned"
       /\ pushIdx' = pushIdx

\* The catch of cleanup (lines 220-223).
Caught(message) ==
  /\ warnings' = warnings \cup {"Failed to stop Virtual TestNet: " \o message}
  /\ cpc' = "returned"

\* Faulty variant of IsCD: every mode persists the deployment info.
IsCDAlways(m) == m \in {"CI", "CD", "STAGING"}

\* mode === 'CD' (line 209)
IsCD(m) == m = "CD"

\* mode === 'CI' (line 217)
IsCI(m) == m = "CI"

\* Lines 203-219: the snapshot is read; then, up to the next await,
\* CD mode calls parseDeploymentLogs and CI mode issues the stop requests.
CleanupReadInfra ==
  /\ cpc = "readInfra"
  /\ \E readFails \in BOOLEAN :
       LET read == readInfraForCurrentJob(infraFile, readFails)
           infra == read.value
       IN  /\ cleanupInfra' = infra
           /\ IF read.threw
              THEN /\ Caught(read.message)
                   /\ UNCHANGED <<pc, stops>>
              ELSE IF ~infra.present
              THEN /\ warnings' = warnings \cup {"No infrastructure information found to cleanup"}
                   /\ cpc' = "returned"
                   /\ UNCHANGED <<pc, stops>>
              ELSE IF IsCD(mode)
              THEN /\ cpc' = "parsing"
                   /\ pc' = "readdir"
                   /\ UNCHANGED <<warnings, stops>>
              ELSE IF IsCI(mode)
              THEN /\ cpc' = "pausing"
                   /\ stops' = StopsIssued(infra.networks)
                   /\ warnings' = warnings \cup StopWarnings(infra.networks, stops')
                   /\ UNCHANGED pc
              ELSE /\ cpc' = "returned"
                   /\ UNCHANGED <<warnings, pc, stops>>
  /\ UNCHANGED <<mode, pushOnComplete, checkout, rmTask, writeState, artifact,
                 proc, pushIdx, execLog>>
  /\ UNCHANGED <<tmpDir, infraFile, jsonFiles, fileIdx, lines, lineIdx,
                 currentContract, contracts, isInDeploymentSection, infraInfo,
                 deploymentGroups, parsed, scanned, emitted>>
  /\ UNCHANGED <<keyVars, provVars>>

\* persistDeploymentInfo after parseDeploymentLogs settles (lines 267-274):
\* a rejection reaches the catch of cleanup; otherwise fs.rm is called and
\* not awaited, and the artifact is written when there are deployments.
AfterParse ==
  /\ cpc = "parsing"
  /\ pc \in {"returned", "threw"}
  /\ IF pc = "threw"
     THEN /\ Caught(parsed.error)
          /\ UNCHANGED <<rmTask, writeState, pushIdx>>
     ELSE /\ rmTask' = "running"
          /\ IF ShouldPersist(parsed)
             THEN /\ writeState' = "pending"
                  /\ cpc' = "writing"
                  /\ UNCHANGED pushIdx
             ELSE /\ EnterPush
                  /\ UNCHANGED writeState
          /\ UNCHANGED warnings
  /\ UNCHANGED <<mode, pushOnComplete, cleanupInfra, checkout, artifact, proc,
                 execLog, stops>>
  /\ UNCHANGED scanVars
  /\ UNCHANGED <<keyVars, provVars>>

\* persistDeployment (lines 262-264): fs.writeFile settles.
WriteSettles ==
  /\ cpc = "writing"
  /\ \E writeFails \in BOOLEAN :
       IF writeFails
       THEN /\ writeState' = "failed"
            /\ Caught("EACCES: open")
            /\ UNCHANGED <<artifact, pushIdx>>
       ELSE /\ writeState' = "ok"
            /\ artifact' = Written(parsed)
            /\ EnterPush
            /\ UNCHANGED warnings
  /\ UNCHANGED <<mode, pushOnComplete, cleanupInfra, checkout, rmTask, proc,
                 execLog, stops>>
  /\ UNCHANGED scanVars
  /\ UNCHANGED <<keyVars, provVars>>

\* One await of push settles (lines 233-247).  testnetLinks (lines 252-258)
\* reads the snapshot again and throws on Object.values(undefined).
PushStep ==
  /\ cpc = "pushing"
  /\ \E fails \in BOOLEAN :
       LET step == PushSteps[pushIdx]
           read == readInfraForCurrentJob(infraFile, fails)
           failed == IF step = "testnetLinks"
                     THEN read.threw \/ ~read.value.present
                     ELSE fails
       IN  IF failed
           THEN /\ Caught(step)
                /\ UNCHANGED <<pushIdx, execLog>>
           ELSE /\ execLog' = Append(execLog, step)
                /\ IF pushIdx = Len(PushSteps)
                   THEN /\ cpc' = "returned"
                        /\ UNCHANGED pushIdx
                   ELSE /\ pushIdx' = pushIdx + 1
                        /\ UNCHANGED cpc
                /\ UNCHANGED warnings
  /\ UNCHANGED <<mode, pushOnComplete, cleanupInfra, checkout, rmTask,
                 writeState, artifact, proc, stops>>
  /\ UNCHANGED scanVars
  /\ UNCHANGED <<keyVars, provVars>>

\* pauseVirtualTestNet (lines 284-299): one stop request settles.
StopSettles ==
  /\ cpc = "pausing"
  /\ \E i \in 1..Len(stops) :
       /\ stops[i] = "pending"
       /\ \E ok \in BOOLEAN :
            IF ok
            THEN /\ stops' = [stops EXCEPT ![i] = "stopped"]
                 /\ UNCHANGED warnings
            ELSE /\ stops' = [stops EXCEPT ![i] = "failed"]
                 /\ warnings' = warnings \cup StopWarnings(cleanupInfra.networks, stops')
  /\ UNCHANGED <<mode, pushOnComplete, cpc, cleanupInfra, checkout, rmTask,
                 writeState, artifact, proc, pushIdx, execLog>>
  /\ UNCHANGED scanVars
  /\ UNCHANGED <<keyVars, provVars>>

\* Faulty variant of AllSettled: the first settled promise ends the wait.
AnySettled(s) == \E i \in 1..Len(s) : s[i] # "pending"

\* Promise.allSettled (line 284): every promise has settled.
AllSettled(s) == \A i \in 1..Len(s) : s[i] # "pending"

\* Promise.allSettled resolves when every request has settled (line 284);
\* a rejected promise does not reject it.
PauseDone ==
  /\ cpc = "pausing"
  /\ AllSettled(stops)
  /\ cpc' = "returned"
  /\ UNCHANGED <<mode, pushOnComplete, cleanupInfra, checkout, rmTask,
                 writeState, artifact, warnings, proc, pushIdx, execLog, stops>>
  /\ UNCHANGED scanVars
  /\ UNCHANGED <<keyVars, provVars>>

\* The git checkout of clearSensitiveData (lines 226-228) ends.  exec.exec
\* rejects on a non-zero exit code and nothing handles the rejection.
CheckoutSettles ==
  /\ checkout = "running"
  /\ proc = "running"
  /\ \E ok \in BOOLEAN :
       IF ok
       THEN /\ checkout' = "done"
            /\ UNCHANGED <<pc, cpc, proc, writeState, artifact>>
       ELSE /\ checkout' = "failed"
            /\ Crash
            /\ \E done \in BOOLEAN :
                 IF writeState = "pending" /\ done
                 THEN writeState' = "ok" /\ artifact' = Written(parsed)
                 ELSE UNCHANGED <<writeState, artifact>>
  /\ UNCHANGED <<mode, pushOnComplete, cleanupInfra, rmTask, warnings, pushIdx,
                 execLog, stops>>
  /\ UNCHANGED <<tmpDir, infraFile, jsonFiles, fileIdx, lines, lineIdx,
                 currentContract, contracts, isInDeploymentSection, infraInfo,
                 deploymentGroups, parsed, scanned, emitted>>
  /\ UNCHANGED <<keyVars, provVars>>

\* tmpBuildOutDir() (line 671) and buildOutDir() (line 672), relative to
\* the workspace.
TmpDirPath == <<".","t","e","n","d","e","r","l","y","/","t","m","p">>
BuildOutDirPath == <<".","t","e","n","d","e","r","l","y">>

\* path lies below the directory dir
IsBelow(path, dir) ==
  /\ Len(path) > Len(dir)
  /\ SubSeq(path, 1, Len(dir)) = dir
  /\ path[Len(dir) + 1] = "/"

\* Faulty variant of RmTarget: the whole deployments directory is removed.
RmTargetAll == BuildOutDirPath

\* The directory fs.rm removes (line 269)
RmTarget == TmpDirPath

\* The snapshot file after fs.rm(RmTarget, { recursive: true }).
AfterRm(file) == IF IsBelow(InfraDirPath, RmTarget) THEN NoFile ELSE file

\* The fs.rm of line 269 ends.  Its promise is neither awaited nor caught.
RmSettles ==
  /\ rmTask = "running"
  /\ proc = "running"
  /\ \E ok \in BOOLEAN :
       IF ok
       THEN /\ rmTask' = "done"
            /\ tmpDir' = [exists |-> FALSE, files |-> <<>>]
            /\ infraFile' = AfterRm(infraFile)
            /\ UNCHANGED <<pc, cpc, proc, writeState, artifact>>
       ELSE /\ rmTask' = "failed"
            /\ Crash
            /\ \E done \in BOOLEAN :
                 IF writeState = "pending" /\ done
                 THEN writeState' = "ok" /\ artifact' = Written(parsed)
                 ELSE UNCHANGED <<writeState, artifact>>
            /\ UNCHANGED <<tmpDir, infraFile>>
  /\ UNCHANGED <<mode, pushOnComplete, cleanupInfra, checkout, warnings,
                 pushIdx, execLog, stops>>
  /\ UNCHANGED <<jsonFiles, fileIdx, lines, lineIdx,
                 currentContract, contracts, isInDeploymentSection, infraInfo,
                 deploymentGroups, parsed, scanned, emitted>>
  /\ UNCHANGED <<keyVars, provVars>>

\* cleanup has returned and nothing is pending: the process exits with 0.
ProcessExit ==
  /\ cpc = "returned"
  /\ proc = "running"
  /\ checkout # "running"
  /\ rmTask # "running"
  /\ proc' = "exited"
  /\ UNCHANGED <<mode, pushOnComplete, cpc, cleanupInfra, checkout, rmTask,
                 writeState, artifact, warnings, pushIdx, execLog, stops>>
  /\ UNCHANGED scanVars
  /\ UNCHANGED <<keyVars, provVars>>

(***************************************************************************)
(* Inputs of the scan: the scratch directory and the snapshot file.        *)
(***************************************************************************)
MaxLines == 4

SeqsUpTo(S, n) == UNION {[1..k -> S] : k \in 0..n}

\* Every file of at most MaxLines of these lines, in any order, is scanned.
FreeLines ==
  {SectionMarker, StartLine(AddressA, Chain1), StartLine(AddressB, Chain12),
   CompilerLine(Version), StatusLine, ResponseLine(StatusOK)}

FreeContents == {JoinLines(ls) : ls \in SeqsUpTo(FreeLines, MaxLines)}

\* A well-formed single-contract fragment.
WellFormed(address, chain, version, runs, path, name, status) ==
  JoinLines(<<SectionMarker, StartLine(address, chain), CompilerLine(version),
              OptimizationsLine(runs), SubmittingLine(path, name, address),
              StatusLine, ResponseLine(status)>>)

Addresses == {AddressA, AddressB}
Chains == {Chain1, Chain12}
\* The optimizer runs a fragment states: the text and the number it writes.
RunCounts == {[text |-> <<"2","0","0">>, value |-> 200], [text |-> <<"0">>, value |-> 0]}
Runs == {r.text : r \in RunCounts}
Statuses == {StatusOK, StatusNOTOK}

WellFormedContents ==
  {WellFormed(a, c, Version, r, PathA, NameA, st) :
     a \in Addresses, c \in Chains, r \in Runs, st \in Statuses}

\* Two contracts in one file, each with its own status lines.
TwoContracts ==
  JoinLines(<<SectionMarker,
              StartLine(AddressA, Chain1), StatusLine, ResponseLine(StatusNOTOK),
              StartLine(AddressB, Chain1), StatusLine, ResponseLine(StatusOK)>>)

\* A start line that names no address and no chain.
BareStart == JoinLines(<<SectionMarker, StartMarker>>)

\* Optimizations lines whose trailing text is a negative number, and no
\* number at all.
NegativeText == <<"-","5">>
NonNumericText == <<"n","o","n","e">>
NegativeRuns ==
  JoinLines(<<SectionMarker, StartLine(AddressA, Chain1), OptimizationsLine(NegativeText)>>)
NonNumericRuns ==
  JoinLines(<<SectionMarker, StartLine(AddressA, Chain1), OptimizationsLine(NonNumericText)>>)

\* A start line and a field line in a file without a section marker.
NoSection == JoinLines(<<StartLine(AddressB, Chain1), CompilerLine(Version)>>)

ExampleContents ==
  WellFormedContents
    \cup {TwoContracts, BareStart, NegativeRuns, NonNumericRuns, NoSection, <<>>}

\* One file of free lines; or a.json, c.txt and b.json, listed in this
\* order, the .json files holding examples; or no directory at all.
ScanDirs ==
  {Dir(<<File(FileA, c)>>) : c \in FreeContents}
    \cup {Dir(<<File(FileA, c1), File(FileC, TwoContracts), File(FileB, c2)>>) :
            c1 \in ExampleContents, c2 \in ExampleContents}
    \cup {Dir(<<>>), NoDir}

ScanInfraFiles == {Stored(<<Net1>>), Stored(<<Net1, Net12>>), NoFile}

InitScanLocals ==
  /\ jsonFiles = <<>>
  /\ fileIdx = 0
  /\ lines = <<>>
  /\ lineIdx = 0
  /\ currentContract = EmptyContract
  /\ contracts = <<>>
  /\ isInDeploymentSection = FALSE
  /\ infraInfo = NoInfra
  /\ deploymentGroups = <<>>
  /\ parsed = Pending
  /\ scanned = <<>>
  /\ emitted = <<>>

\* No other job is looked at.
InitKeyIdle ==
  /\ contexts = <<>>
  /\ store = <<>>
  /\ seen = <<>>

\* const networkInfo = {} (line 600)
NoNetworkInfo == [id \in {} |-> 0]

\* The main step is not looked at.
InitRunIdle ==
  /\ rpc = "none"
  /\ networkIds = <<>>
  /\ creates = <<>>
  /\ networkInfo = NoNetworkInfo
  /\ infraDir = "exists"
  /\ setFailed = ""
  /\ configDone = FALSE
  /\ persist = "none"
  /\ infraWrites = <<>>
  /\ runWarnings = {}

InitPostLocals ==
  /\ cleanupInfra = NoInfra
  /\ checkout = "idle"
  /\ rmTask = "idle"
  /\ writeState = "none"
  /\ artifact = NoArtifact
  /\ warnings = {}
  /\ proc = "running"
  /\ pushIdx = 0
  /\ execLog = <<>>
  /\ stops = <<>>

\* parseDeploymentLogs(tmpBuildOutDir()) called on its own.
InitScan ==
  /\ tmpDir \in ScanDirs
  /\ infraFile \in ScanInfraFiles
  /\ pc = "readdir"
  /\ InitScanLocals
  /\ mode = "CD"
  /\ pushOnComplete = FALSE
  /\ cpc = "none"
  /\ InitPostLocals
  /\ InitKeyIdle
  /\ InitRunIdle

NextScan ==
  \/ ReadDir
  \/ ReadInfraInfo
  \/ ReadFile
  \/ ScanLine
  \/ EndOfFile
  \/ ReturnReport

SpecScan == InitScan /\ [][NextScan]_vars

(***************************************************************************)
(* The post step as the runner starts it: cleanup() (line 260).            *)
(***************************************************************************)
Modes == {"CI", "CD", "STAGING"}

PostDirs ==
  {NoDir, Dir(<<>>), Dir(<<File(FileA, <<>>)>>),
   Dir(<<File(FileA, WellFormed(AddressA, Chain1, Version, <<"2","0","0">>, PathA, NameA, StatusOK))>>),
   Dir(<<File(FileA, WellFormed(AddressA, Chain1, Version, <<"2","0","0">>, PathA, NameA, StatusOK)),
         File(FileB, WellFormed(AddressB, Chain12, Version, <<"0">>, PathA, NameA, StatusNOTOK))>>)}

PostInfraFiles ==
  {Stored(<<Net1>>), Stored(<<Net1, Net12>>), Stored(<<Net1, NetNoId, Net12>>),
   Stored(<<>>), NoFile, Malformed}

InitPost ==
  /\ tmpDir \in PostDirs
  /\ infraFile \in PostInfraFiles
  /\ pc = "idle"
  /\ InitScanLocals
  /\ mode \in Modes
  /\ pushOnComplete \in BOOLEAN
  /\ cpc = "start"
  /\ InitPostLocals
  /\ InitKeyIdle
  /\ InitRunIdle

NextPost ==
  \/ CleanupStart
  \/ CleanupReadInfra
  \/ ReadDir
  \/ ReadInfraInfo
  \/ ReadFile
  \/ ScanLine
  \/ EndOfFile
  \/ ReturnReport
  \/ AfterParse
  \/ WriteSettles
  \/ PushStep
  \/ StopSettles
  \/ PauseDone
  \/ CheckoutSettles
  \/ RmSettles
  \/ ProcessExit

SpecPost == InitPost /\ [][NextPost]_vars

(***************************************************************************)
(* Two jobs that use the action in one workspace: each stores its snapshot *)
(* at infraFileForCurrentJob() (line 724-725) and reads it back (line 747).*)
(***************************************************************************)
Context(workflow, runNumber, job) ==
  [workflow |-> workflow, runNumber |-> runNumber, job |-> job]

Workflows ==
  {<<"C","I">>, <<"c","i">>, <<"C","I"," ","C","D">>, <<"C","I","/","C","D">>,
   <<"C","I","-","C","D">>, <<"C","I",".","C","D">>, <<"C","I"," ","\t","C","D">>,
   <<"A"," ","b","/","C">>}
RunNumbers == {7, 12}
Jobs ==
  {<<"t","e","s","t">>, <<"C","D","-","t","e","s","t">>, <<"T","e","s","t">>,
   <<"t","e"," ","s","t">>}

Contexts == {Context(w, n, j) : w \in Workflows, n \in RunNumbers, j \in Jobs}

\* The file system as a function from paths to the job that wrote the file.
WriteAt(files, path, job) ==
  [q \in DOMAIN files \cup {path} |-> IF q = path THEN job ELSE files[q]]

NothingSeen == [state |-> "none", owner |-> 0]

\* storeInfrastructureInfo of job r (lines 724-725)
StoreInfra(r) ==
  /\ seen[r].state = "none"
  /\ store' = WriteAt(store, infraFileForCurrentJob(contexts[r]), r)
  /\ seen' = [seen EXCEPT ![r].state = "stored"]
  /\ UNCHANGED contexts
  /\ UNCHANGED <<scanVars, postVars, provVars>>

\* readInfraForCurrentJob of job r (line 747)
ReadInfraBack(r) ==
  /\ seen[r].state = "stored"
  /\ seen' = [seen EXCEPT ![r] = [state |-> "read",
                                  owner |-> store[infraFileForCurrentJob(contexts[r])]]]
  /\ UNCHANGED <<contexts, store>>
  /\ UNCHANGED <<scanVars, postVars, provVars>>

InitKey ==
  /\ contexts \in Contexts \X Contexts
  /\ store = <<>>
  /\ seen = <<NothingSeen, NothingSeen>>
  /\ tmpDir = NoDir
  /\ infraFile = NoFile
  /\ pc = "idle"
  /\ InitScanLocals
  /\ mode = "CD"
  /\ pushOnComplete = FALSE
  /\ cpc = "none"
  /\ InitPostLocals
  /\ InitRunIdle

NextKey ==
  \/ \E r \in {1, 2} : StoreInfra(r)
  \/ \E r \in {1, 2} : ReadInfraBack(r)

SpecKey == InitKey /\ [][NextKey]_vars

(***************************************************************************)
(* The main step: run (src/index.ts, lines 574-658), and the job as a      *)
(* whole: the main step, the steps of the workflow, the post step.         *)
(***************************************************************************)
\* The networks the action can be asked for, by ascending network id:
\* Object.values lists integer-like keys in ascending numeric order.
AllNets == <<Net1, Net12>>

\* Object.values(networkInfo) for the network ids that were recorded
SnapshotNetworks(ids) == SelectSeq(AllNets, LAMBDA n : n.networkId \in ids)

\* networkInfo[networkId] = { ...testNet, ... } (lines 616-622) by the
\* callback of creation i: an entry of the same network id is replaced.
Recorded(info, id, i) ==
  [k \in DOMAIN info \cup {id} |-> IF k = id THEN i ELSE info[k]]

\* The catch of run (lines 654-657).
RunCaught(message) ==
  /\ setFailed' = message
  /\ rpc' = "done"

\* Lines 575-613: the inputs are read and createVirtualTestNet is called
\* for every network id; Promise.all of no promise resolves.
RunStart ==
  /\ rpc = "start"
  /\ creates' = [i \in 1..Len(networkIds) |-> "pending"]
  /\ rpc' = "creating"
  /\ UNCHANGED <<networkIds, networkInfo, infraDir, setFailed, configDone,
                 persist, infraWrites, runWarnings>>
  /\ UNCHANGED <<scanVars, postVars, keyVars>>

\* Lines 613-643: one createVirtualTestNet settles; on success the callback
\* records the network.  The callbacks run on also after run has caught a
\* failure of another network.
CreateSettles ==
  /\ rpc \in {"creating", "done"}
  /\ \E i \in 1..Len(creates) :
       /\ creates[i] = "pending"
       /\ \E ok \in BOOLEAN :
            IF ok
            THEN /\ creates' = [creates EXCEPT ![i] = "created"]
                 /\ networkInfo' = Recorded(networkInfo, networkIds[i], i)
            ELSE /\ creates' = [creates EXCEPT ![i] = "failed"]
                 /\ UNCHANGED networkInfo
  /\ UNCHANGED <<rpc, networkIds, infraDir, setFailed, configDone, persist,
                 infraWrites, runWarnings>>
  /\ UNCHANGED <<scanVars, postVars, keyVars>>

\* Promise.all (line 602) rejects with the first rejection and resolves
\* when every promise has resolved; then lines 647-650 up to the next await.
CreatesDone ==
  /\ rpc = "creating"
  /\ IF \E i \in 1..Len(creates) : creates[i] = "failed"
     THEN RunCaught("Failed to create TestNet")
     ELSE /\ \A i \in 1..Len(creates) : creates[i] = "created"
          /\ rpc' = IF IsCD(mode) THEN "setupFolder" ELSE "createInfraDir"
          /\ UNCHANGED setFailed
  /\ UNCHANGED <<networkIds, creates, networkInfo, infraDir, configDone,
                 persist, infraWrites, runWarnings>>
  /\ UNCHANGED <<scanVars, postVars, keyVars>>

\* setupDeploymentsFolder (lines 693-708)
SetupDeploymentsFolder ==
  /\ rpc = "setupFolder"
  /\ \E fails \in BOOLEAN :
       IF ~tmpDir.exists /\ fails
       THEN /\ RunCaught("EACCES: mkdir tmp")
            /\ UNCHANGED tmpDir
       ELSE /\ tmpDir' = IF tmpDir.exists THEN tmpDir ELSE Dir(<<>>)
            /\ rpc' = "createInfraDir"
            /\ UNCHANGED setFailed
  /\ UNCHANGED <<networkIds, creates, networkInfo, infraDir, configDone,
                 persist, infraWrites, runWarnings>>
  /\ UNCHANGED <<infraFile, scanLocals, postVars, keyVars>>

\* createInfraDir (lines 768-772), awaited at line 650 outside the try of
\* storeInfrastructureInfo: a failing fs.mkdir reaches the catch of run.
CreateInfraDir ==
  /\ rpc = "createInfraDir"
  /\ \E fails \in BOOLEAN :
       IF infraDir # "exists" /\ fails
       THEN /\ RunCaught("EACCES: mkdir infra")
            /\ persist' = "dirFailed"
            /\ UNCHANGED infraDir
       ELSE /\ infraDir' = "exists"
            /\ rpc' = "store"
            /\ UNCHANGED <<setFailed, persist>>
  /\ UNCHANGED <<networkIds, creates, networkInfo, configDone, infraWrites,
                 runWarnings>>
  /\ UNCHANGED <<scanVars, postVars, keyVars>>

\* storeInfrastructureInfo (lines 710-731): a failing fs.writeFile is caught
\* and logged as a warning.
StoreInfrastructureInfo ==
  /\ rpc = "store"
  /\ \E fails \in BOOLEAN :
       IF fails
       THEN /\ runWarnings' = runWarnings \cup {"Failed to store infrastructure information"}
            /\ persist' = "writeFailed"
            /\ UNCHANGED <<infraFile, infraWrites>>
       ELSE /\ infraFile' = Stored(SnapshotNetworks(DOMAIN networkInfo))
            /\ infraWrites' = Append(infraWrites, infraFile')
            /\ persist' = "ok"
            /\ UNCHANGED runWarnings
  /\ rpc' = "config"
  /\ UNCHANGED <<networkIds, creates, networkInfo, infraDir, setFailed,
                 configDone>>
  /\ UNCHANGED <<tmpDir, scanLocals, postVars, keyVars>>

\* setupTenderlyConfig (lines 98-113), awaited at line 653.
SetupTenderlyConfig ==
  /\ rpc = "config"
  /\ \E fails \in BOOLEAN :
       IF fails
       THEN /\ RunCaught("Failed to create Tenderly config")
            /\ UNCHANGED configDone
       ELSE /\ configDone' = TRUE
            /\ rpc' = "done"
            /\ UNCHANGED setFailed
  /\ UNCHANGED <<networkIds, creates, networkInfo, infraDir, persist,
                 infraWrites, runWarnings>>
  /\ UNCHANGED <<scanVars, postVars, keyVars>>

\* run has returned and no request is pending: the process of the main step
\* ends (line 660).
MainExit ==
  /\ rpc = "done"
  /\ \A i \in 1..Len(creates) : creates[i] # "pending"
  /\ rpc' = "exited"
  /\ UNCHANGED <<networkIds, creates, networkInfo, infraDir, setFailed,
                 configDone, persist, infraWrites, runWarnings>>
  /\ UNCHANGED <<scanVars, postVars, keyVars>>

\* The steps of the workflow have left their logs, or nothing, in the
\* scratch directory; the runner starts the post step (post-if: always()).
PostStart ==
  /\ rpc = "exited"
  /\ cpc = "none"
  /\ \E dir \in PostDirs : tmpDir' = dir
  /\ cpc' = "start"
  /\ proc' = "running"
  /\ UNCHANGED <<mode, pushOnComplete, cleanupInfra, checkout, rmTask,
                 writeState, artifact, warnings, pushIdx, execLog, stops>>
  /\ UNCHANGED <<infraFile, scanLocals, keyVars, provVars>>

NetworkIdInputs == {<<>>, <<"1">>, <<"1", "12">>, <<"12", "1">>, <<"1", "1">>}

InitJob ==
  /\ tmpDir = NoDir
  /\ infraFile = NoFile
  /\ pc = "idle"
  /\ InitScanLocals
  /\ mode \in Modes
  /\ pushOnComplete \in BOOLEAN
  /\ cpc = "none"
  /\ cleanupInfra = NoInfra
  /\ checkout = "idle"
  /\ rmTask = "idle"
  /\ writeState = "none"
  /\ artifact = NoArtifact
  /\ warnings = {}
  /\ proc = "idle"
  /\ pushIdx = 0
  /\ execLog = <<>>
  /\ stops = <<>>
  /\ InitKeyIdle
  /\ rpc = "start"
  /\ networkIds \in NetworkIdInputs
  /\ creates = <<>>
  /\ networkInfo = NoNetworkInfo
  /\ infraDir \in {"missing", "exists"}
  /\ setFailed = ""
  /\ configDone = FALSE
  /\ persist = "none"
  /\ infraWrites = <<>>
  /\ runWarnings = {}

NextJob ==
  \/ RunStart
  \/ CreateSettles
  \/ CreatesDone
  \/ SetupDeploymentsFolder
  \/ CreateInfraDir
  \/ StoreInfrastructureInfo
  \/ SetupTenderlyConfig
  \/ MainExit
  \/ PostStart
  \/ CleanupStart
  \/ CleanupReadInfra
  \/ ReadDir
  \/ ReadInfraInfo
  \/ ReadFile
  \/ ScanLine
  \/ EndOfFile
  \/ ReturnReport
  \/ AfterParse
  \/ WriteSettles
  \/ PushStep
  \/ StopSettles
  \/ PauseDone
  \/ CheckoutSettles
  \/ RmSettles
  \/ ProcessExit

SpecJob == InitJob /\ [][NextJob]_vars

(***************************************************************************)
(* Properties of the scan (SpecScan).                                      *)
(***************************************************************************)
\* The lines of the k-th scanned file, taken from the directory.
LinesOfScanned(k) == Split(ContentOf(tmpDir, scanned[k]), "\n")

\* The positions of the lines of ls that lie after the first ## line and
\* contain the start marker.
SectionStarts(ls) ==
  LET marks == {i \in 1..Len(ls) : IsSectionLine(ls[i])}
  IN  IF marks = {} THEN {}
      ELSE {i \in (Min(marks) + 1)..Len(ls) :
              ~IsSectionLine(ls[i]) /\ Includes(ls[i], StartMarker)}

\* The elements of a finite set of integers in ascending order.
RECURSIVE Ascending(_)
Ascending(S) == IF S = {} THEN <<>> ELSE <<Min(S)>> \o Ascending(S \ {Min(S)})

\* a is b with some elements left out, the order kept.
RECURSIVE IsSubsequence(_, _)
IsSubsequence(a, b) ==
  IF a = <<>> THEN TRUE
  ELSE IF b = <<>> THEN FALSE
  ELSE IF Head(a) = Head(b) THEN IsSubsequence(Tail(a), Tail(b))
  ELSE IsSubsequence(a, Tail(b))

\* The contracts of all the files scanned so far, in order.
RECURSIVE Flatten(_)
Flatten(lists) == IF lists = <<>> THEN <<>> ELSE Head(lists) \o Flatten(Tail(lists))

\* The scan of the current file has just ended.
FileEnded == pc = "file" /\ emitted # <<>>

\* C1: a file in which no line contains 'Start verifying contract' yields
\* an empty sequence of contracts (and so adds nothing to any group).
C1_NoMarkerNoContract ==
  \A k \in 1..Len(emitted) :
    (\A i \in 1..Len(LinesOfScanned(k)) :
       ~Includes(LinesOfScanned(k)[i], StartMarker))
      => emitted[k] = <<>>

\* C2: the report holds exactly one group for each network of the snapshot
\* that has a matching record in some scanned file, that group holds all the
\* matching records of all the files, and no network has two groups.
C2_OneGroupPerNetwork ==
  parsed.state = "returned" =>
    \A n \in 1..Len(infraInfo.networks) :
      LET net == infraInfo.networks[n]
          matching == SelectSeq(Flatten(emitted),
                                LAMBDA c : c["chain"] = Str(NumberToString(net.chainId)))
          groups == SelectSeq(parsed.deployments, LAMBDA g : g.virtualTestNet = net)
      IN  IF matching = <<>> THEN groups = <<>>
          ELSE Len(groups) = 1 /\ groups[1].contracts = matching

\* C3: every group of the report has at least one contract, and a network
\* of the snapshot that no scanned record matches is in no group.
C3_NoEmptyGroup ==
  /\ \A i \in 1..Len(deploymentGroups) : Len(deploymentGroups[i].contracts) >= 1
  /\ \A i \in 1..Len(parsed.deployments) : Len(parsed.deployments[i].contracts) >= 1
  /\ parsed.state = "returned" =>
       \A n \in 1..Len(infraInfo.networks) :
         LET net == infraInfo.networks[n]
         IN  (\A c \in {Flatten(emitted)[j] : j \in 1..Len(Flatten(emitted))} :
                c["chain"] # Str(NumberToString(net.chainId)))
               => \A i \in 1..Len(parsed.deployments) :
                    parsed.deployments[i].virtualTestNet # net

\* C3 witness: a report that lists one of the two networks of the snapshot
\* and leaves out the other, which no record matches.
C3_Witness ==
  /\ parsed.state = "returned"
  /\ Len(infraInfo.networks) = 2
  /\ Len(parsed.deployments) = 1
  /\ parsed.deployments[1].virtualTestNet = Net1

\* C4: when a start marker was seen in the section of a file, the record
\* opened by the last of them is the last record of the file at its end.
C4_EndOfFileFlush ==
  FileEnded =>
    LET starts == SectionStarts(lines)
        final == emitted[Len(emitted)]
    IN  starts # {} =>
          /\ final # <<>>
          /\ final = contracts
          /\ final[Len(final)]["address"] # Absent
          /\ \A a \in Addresses, c \in Chains :
               lines[Max(starts)] = StartLine(a, c) =>
                 /\ final[Len(final)]["address"] = Str(a)
                 /\ final[Len(final)]["chain"] = Str(c)

\* C4 witness: a file with two start markers has ended; its second record
\* was never closed by a later start marker.
C4_Witness ==
  /\ FileEnded
  /\ Cardinality(SectionStarts(lines)) = 2
  /\ Len(contracts) = 2
  /\ contracts[2]["address"] = Str(AddressB)

\* The Contract a well-formed fragment describes.
ExpectedContract(address, chain, version, runs, path, name, status) ==
  [address |-> Str(address), chain |-> Str(chain),
   verificationStatus |-> Str(status), compiler |-> Str(version),
   optimizations |-> Num(runs), contractPath |-> Str(path),
   contractName |-> Str(name)]

\* C5: the scan of a well-formed single-contract fragment yields exactly one
\* record, whose fields are the values written in the lines.
C5_WellFormedFragment ==
  \A k \in 1..Len(emitted) :
    \A a \in Addresses, c \in Chains, r \in RunCounts, st \in Statuses :
      ContentOf(tmpDir, scanned[k]) = WellFormed(a, c, Version, r.text, PathA, NameA, st)
        => emitted[k] = <<ExpectedContract(a, c, Version, r.value, PathA, NameA, st)>>

\* The records of the list that a start marker opened.
Opened(list) == SelectSeq(list, LAMBDA c : c["address"] # Absent)

\* C6, in a state: the opened records of a file are in the order of the
\* start markers of its section; the files are scanned in listing order.
C6_State ==
  /\ IsSubsequence(jsonFiles, NamesOf(tmpDir.files))
  /\ scanned = SubSeq(jsonFiles, 1, Len(scanned))
  /\ Len(emitted) <= Len(scanned)
  /\ parsed.state = "returned" => parsed.deployments = deploymentGroups
  /\ FileEnded =>
       LET starts == Ascending(SectionStarts(lines))
           opened == Opened(emitted[Len(emitted)])
       IN  /\ Len(opened) = Len(starts)
           /\ \A j \in 1..Len(starts) :
                \A a \in Addresses, c \in Chains :
                  lines[starts[j]] = StartLine(a, c) =>
                    opened[j]["address"] = Str(a) /\ opened[j]["chain"] = Str(c)

\* C6, in a step: groups are only added at the end of the list, at the end
\* of a file, and the contracts of an added group are contracts of that
\* file in the order of the file.
C6_Step ==
  LET n == Len(deploymentGroups)
  IN  /\ Len(deploymentGroups') >= n
      /\ SubSeq(deploymentGroups', 1, n) = deploymentGroups
      /\ IF emitted' # emitted
         THEN /\ emitted' = Append(emitted, contracts')
              /\ \A i \in (n + 1)..Len(deploymentGroups') :
                   IsSubsequence(deploymentGroups'[i].contracts, contracts')
         ELSE deploymentGroups' = deploymentGroups

\* C6: record order is preserved, within a file, within a group and
\* across the files.
C6_OrderPreserved == []C6_State /\ [][C6_Step]_vars

\* C6 witness: two files were scanned, the first with two different
\* records, and groups of both files are in the list.
C6_Witness ==
  /\ parsed.state = "returned"
  /\ Len(emitted) = 2
  /\ Len(emitted[1]) = 2
  /\ emitted[1][1]["address"] # emitted[1][2]["address"]
  /\ emitted[2] # <<>>
  /\ Len(deploymentGroups) >= 2

\* The line at position i of the file being scanned was handled inside
\* the deployment section.
HandledInSection(i) ==
  /\ i \in 1..Len(lines)
  /\ i < lineIdx
  /\ ~IsSectionLine(lines[i])
  /\ \E j \in 1..(i - 1) : IsSectionLine(lines[j])

\* The status the line after position i states: the token of a
\* 'Response:' line, null when there is no such line or token.
StatedStatus(i) ==
  IF i + 1 > Len(lines) \/ ~Includes(lines[i + 1], ResponseOpen) THEN {Null}
  ELSE {Str(st) : st \in {x \in Statuses : lines[i + 1] = ResponseLine(x)}}

\* C18: right after a 'Contract verification status:' line at position i,
\* the open record has the status stated by the line at position i + 1 of
\* the file - null at the end of the file or without a Response token.
C18_StatusFromNextLine ==
  (pc = "line" /\ HandledInSection(lineIdx - 1)
     /\ LineKind(lines[lineIdx - 1]) = "status") =>
    currentContract["verificationStatus"] \in StatedStatus(lineIdx - 1)

\* A non-empty string.
IsText(v) == v.t = "string" /\ v.s # <<>>

\* C19: every record pushed to contracts, at a start marker or at the end
\* of a file, was opened by a start line and has a non-empty address and a
\* non-empty chain.
C19_EmittedHaveAddressAndChain ==
  /\ \A i \in 1..Len(contracts) :
       IsText(contracts[i]["address"]) /\ IsText(contracts[i]["chain"])
  /\ \A k \in 1..Len(emitted) : \A i \in 1..Len(emitted[k]) :
       IsText(emitted[k][i]["address"]) /\ IsText(emitted[k][i]["chain"])

\* The keys of a record that a line of this kind assigns.
KeysOfKind(kind) ==
  CASE kind = "compiler" -> {"compiler"}
    [] kind = "optimizations" -> {"optimizations"}
    [] kind = "submitting" -> {"contractPath", "contractName"}
    [] kind = "status" -> {"verificationStatus"}
    [] OTHER -> {}

\* The start lines of the section that the scan of the file has handled.
StartsHandled == {i \in SectionStarts(lines) : i < lineIdx}

\* C20, in a state: the open record is the one of the most recent start
\* line, whatever field lines came after it.
C20_State ==
  (pc = "line" /\ StartsHandled # {}) =>
    /\ currentContract["address"] # Absent
    /\ \A a \in Addresses, c \in Chains :
         lines[Max(StartsHandled)] = StartLine(a, c) =>
           /\ currentContract["address"] = Str(a)
           /\ currentContract["chain"] = Str(c)

\* C20, in a step: a compiler, optimizations, submitting or status line
\* assigns its own keys of the open record and nothing else; the records
\* already pushed, of this file and of the files before, stay as they are.
C20_Step ==
  /\ \A k \in 1..Len(emitted) : emitted'[k] = emitted[k]
  /\ (pc = "line" /\ lineIdx <= Len(lines)) =>
       LET kind == LineKind(lines[lineIdx])
       IN  /\ Len(contracts') >= Len(contracts)
           /\ SubSeq(contracts', 1, Len(contracts)) = contracts
           /\ (kind # "start" \/ ~isInDeploymentSection) =>
                /\ contracts' = contracts
                /\ \A key \in ContractKeys \ KeysOfKind(kind) :
                     currentContract'[key] = currentContract[key]

\* C20: field lines attach to the open record and to no pushed one.
C20_FieldsAttach == []C20_State /\ [][C20_Step]_vars

\* C20 witness: after two start lines a compiler line was handled; the
\* pushed record of the first has no compiler, the open record has it.
C20_Witness ==
  /\ pc = "line"
  /\ Len(contracts) = 1
  /\ contracts[1]["address"] = Str(AddressA)
  /\ contracts[1]["compiler"] = Absent
  /\ currentContract["address"] = Str(AddressB)
  /\ currentContract["compiler"] = Str(Version)

\* The records the scan holds: the open one, the pushed ones, and those of
\* the files before.
RecordsHeld ==
  {currentContract} \cup RangeOf(contracts) \cup RangeOf(Flatten(emitted))

\* C21: right after an 'Optimizations:' line whose trailing text is the
\* non-negative integer N the open record has optimizations = N, also for
\* N = 0; after non-numeric text it has null; and no record ever has a
\* negative optimizations.
C21_OptimizationsParsed ==
  /\ (pc = "line" /\ HandledInSection(lineIdx - 1)) =>
       /\ \A r \in RunCounts :
            lines[lineIdx - 1] = OptimizationsLine(r.text) =>
              currentContract["optimizations"] = Num(r.value)
       /\ lines[lineIdx - 1] = OptimizationsLine(NonNumericText) =>
            currentContract["optimizations"] = Null
  /\ \A c \in RecordsHeld :
       c["optimizations"].t = "number" => c["optimizations"].n >= 0

\* Some line before position i of ls consists solely of ##.
SectionOpenedBefore(ls, i) == \E j \in 1..(i - 1) : j <= Len(ls) /\ IsSectionLine(ls[j])

\* C22: while no line consisting solely of ## has been handled in the file
\* being scanned, the scanner is outside the section and holds no record,
\* whatever the lines so far and whatever the file before held; a file
\* without such a line yields no record.
C22_OutsideSectionIgnored ==
  /\ pc = "line" =>
       /\ isInDeploymentSection <=> SectionOpenedBefore(lines, lineIdx)
       /\ ~SectionOpenedBefore(lines, lineIdx) =>
            currentContract = EmptyContract /\ contracts = <<>>
  /\ \A k \in 1..Len(emitted) :
       LET ls == LinesOfScanned(k)
       IN  ~SectionOpenedBefore(ls, Len(ls) + 1) => emitted[k] = <<>>

\* C22 witness: the first file held a record; the second, a start line and
\* a compiler line without a section marker, was scanned and yielded none.
C22_Witness ==
  /\ Len(emitted) = 2
  /\ emitted[1] # <<>>
  /\ ContentOf(tmpDir, scanned[2]) = NoSection
  /\ emitted[2] = <<>>

\* The chain id of a network of the snapshot, written in decimal.
DecimalChainId(network) ==
  CASE network = Net1 -> Chain1
    [] network = Net12 -> Chain12

\* The groups built so far and those of the report.
GroupsHeld == RangeOf(deploymentGroups) \cup RangeOf(parsed.deployments)

\* C23: every contract of a group has the chain that is the decimal chain
\* id of the group's network; a scanned record whose chain is the chain id
\* of no network of the snapshot - an empty chain, no chain - is in no group.
C23_GroupedByChain ==
  /\ \A g \in GroupsHeld :
       /\ g.virtualTestNet \in RangeOf(infraInfo.networks)
       /\ \A c \in RangeOf(g.contracts) :
            c["chain"] = Str(DecimalChainId(g.virtualTestNet))
  /\ \A c \in RangeOf(Flatten(emitted)) :
       (\A n \in RangeOf(infraInfo.networks) : c["chain"] # Str(DecimalChainId(n)))
         => \A g \in GroupsHeld : c \notin RangeOf(g.contracts)

\* C23 witness: a file held a record on chain 1 and a record on chain 12,
\* the snapshot has the network of chain 1 only, and the report has one
\* group with the one record.
C23_Witness ==
  /\ parsed.state = "returned"
  /\ infraInfo.networks = <<Net1>>
  /\ Len(emitted) = 1 /\ Len(emitted[1]) = 2
  /\ emitted[1][1]["chain"] = Str(Chain1)
  /\ emitted[1][2]["chain"] = Str(Chain12)
  /\ Len(parsed.deployments) = 1
  /\ parsed.deployments[1].contracts = <<emitted[1][1]>>

(***************************************************************************)
(* Properties of the post step (SpecPost).                                 *)
(***************************************************************************)
\* C7: when parseDeploymentLogs finds no snapshot it throws: no report is
\* returned, no log file is read and no artifact is written; and nothing of
\* this happens either while no snapshot file is stored.
C7_NoSnapshotNoReport ==
  /\ (pc \in {"file", "line", "returned", "threw"} /\ ~infraInfo.present) =>
       /\ pc = "threw"
       /\ parsed.state = "threw"
       /\ scanned = <<>>
       /\ writeState = "none"
       /\ ~artifact.written
  /\ infraFile.state # "stored" =>
       /\ parsed.state # "returned"
       /\ scanned = <<>>
       /\ writeState = "none"
       /\ ~artifact.written

\* C7 witness: the directory holds a log file, parseDeploymentLogs threw for
\* the missing snapshot and cleanup has returned.
C7_Witness ==
  /\ parsed.state = "threw"
  /\ parsed.error = "No infrastructure information found"
  /\ Len(jsonFiles) >= 1
  /\ cpc = "returned"
  /\ proc = "exited"

\* C8: a failed write of the deployments artifact fails the step: the
\* process does not end with success after it.
C8_WriteFailureFailsStep == writeState = "failed" => proc # "exited"

\* C9: no write of the artifact is attempted for a report without groups;
\* a write is attempted, and the file written, only with at least one group.
C9_NoWriteWithoutGroups ==
  /\ (parsed.state = "returned" /\ parsed.deployments = <<>>) =>
       /\ writeState = "none"
       /\ cpc # "writing"
       /\ ~artifact.written
  /\ writeState # "none" =>
       parsed.state = "returned" /\ Len(parsed.deployments) >= 1
  /\ artifact.written => Len(artifact.deployments) >= 1

\* C9 witness: a log file was scanned, the report has no group, and the
\* post step ended with no write attempted.
C9_Witness ==
  /\ parsed.state = "returned"
  /\ parsed.deployments = <<>>
  /\ Len(scanned) >= 1
  /\ rmTask = "done"
  /\ proc = "exited"
  /\ writeState = "none"

\* C10: once parsing has returned a report the deletion of the scratch
\* directory is issued, and a failed deletion is not fatal: the process
\* does not die of it.
C10_RmFailureNotFatal ==
  /\ (parsed.state = "returned" /\ cpc \in {"writing", "pushing", "returned"}) =>
       rmTask # "idle"
  /\ rmTask = "failed" => proc # "crashed"

\* The post step has entered pauseVirtualTestNet.
Pausing == mode = "CI" /\ cleanupInfra.present /\ cpc \in {"pausing", "returned"}

\* C11, in a state: pauseVirtualTestNet has called stopVirtualTestNet for
\* each network of the snapshot, it has returned only with every stop
\* settled, and no failure of a stop reached the catch of cleanup.
C11_State ==
  Pausing =>
    /\ Len(stops) = Len(cleanupInfra.networks)
    /\ cpc = "returned" =>
         \A i \in 1..Len(stops) : stops[i] \in {"stopped", "failed"}
    /\ warnings = StopWarnings(cleanupInfra.networks, stops)

\* C11, in a step: a stop that settles, with success or not, changes the
\* stop of no other network; a settled stop stays as it settled.
C11_Step ==
  /\ stops # <<>> => Len(stops') = Len(stops)
  /\ \A i \in 1..Len(stops) :
       /\ stops[i] # "pending" => stops'[i] = stops[i]
       /\ stops'[i] # stops[i] =>
            \A j \in 1..Len(stops) : j # i => stops'[j] = stops[j]

\* C11: the stops of pauseVirtualTestNet are independent and all awaited.
C11_FanOut == []C11_State /\ [][C11_Step]_vars

\* C11 witness: of the stop requests of two networks the first failed and
\* the second succeeded; pauseVirtualTestNet returned and the step ended.
C11_Witness ==
  /\ Pausing
  /\ cpc = "returned"
  /\ cleanupInfra.networks = <<Net1, Net12>>
  /\ stops = <<"failed", "stopped">>
  /\ proc = "exited"

\* C12: in CD mode no stop is ever requested; in CI mode the deployment
\* logs are not parsed, the scratch directory is kept and no artifact is
\* written, and cleanup returns with a stop requested for every network of
\* the snapshot it read; any other mode does neither.
C12_ModeSeparation ==
  /\ mode = "CD" => stops = <<>> /\ cpc # "pausing"
  /\ mode # "CD" =>
       /\ pc \in {"idle", "dead"} /\ parsed = Pending /\ scanned = <<>>
       /\ rmTask = "idle" /\ tmpDir \in PostDirs
       /\ writeState = "none" /\ ~artifact.written
       /\ execLog = <<>>
  /\ (mode = "CI" /\ cpc = "returned" /\ cleanupInfra.present) =>
       /\ Len(stops) = Len(cleanupInfra.networks)
       /\ AllSettled(stops)
  /\ mode \notin {"CI", "CD"} => stops = <<>> /\ cpc # "pausing"

\* C12 witness: a CI run whose scratch directory holds a deployment log
\* matching the snapshot ended with the network stopped and no artifact.
C12_Witness ==
  /\ mode = "CI"
  /\ proc = "exited"
  /\ tmpDir.exists /\ Len(tmpDir.files) = 2
  /\ cleanupInfra.networks = <<Net1, Net12>>
  /\ stops = <<"stopped", "stopped">>
  /\ ~artifact.written

(***************************************************************************)
(* Properties of the run key (SpecKey).                                    *)
(***************************************************************************)
\* Lowercase letters, digits and the hyphen.
SafeChars == RangeOf(LowerCase) \cup Digits \cup {"-"}

\* The basename, without directory and extension, of a path below infraDir().
BaseName(path) == SubSeq(path, Len(InfraDirPath) + 1, Len(path) - Len(JsonExt))

\* C13: the key is a function of (workflow, runNumber, job) alone - two
\* jobs with equal contexts use one and the same file - and every key in use
\* consists of lowercase letters, digits and hyphens only.
C13_KeySafe ==
  /\ \A path \in DOMAIN store :
       /\ SubSeq(path, 1, Len(InfraDirPath)) = InfraDirPath
       /\ BaseName(path) # <<>>
       /\ \A i \in 1..Len(BaseName(path)) : BaseName(path)[i] \in SafeChars
  /\ contexts[1] = contexts[2] => Cardinality(DOMAIN store) <= 1
  /\ \A r \in {1, 2} :
       seen[r].state # "none" => infraFileForCurrentJob(contexts[r]) \in DOMAIN store

\* C13 witness: a snapshot was stored for a workflow name with an uppercase
\* letter, a blank and a slash.
C13_Witness ==
  /\ contexts[1].workflow = <<"A"," ","b","/","C">>
  /\ contexts[1].job = <<"t","e"," ","s","t">>
  /\ contexts[1].runNumber = 7
  /\ seen[1] = [state |-> "read", owner |-> 1]
  /\ DOMAIN store = {InfraDirPath \o <<"7","-","a","-","b","-","c","-","t","e","-","s","t">> \o JsonExt}

\* C14: two jobs with different (workflow, runNumber, job) have different
\* keys: neither reads back the snapshot of the other, and neither
\* overwrites it.
C14_NoCollision ==
  contexts[1] # contexts[2] =>
    /\ \A r \in {1, 2} : seen[r].state = "read" => seen[r].owner = r
    /\ (seen[1].state # "none" /\ seen[2].state # "none") =>
         Cardinality(DOMAIN store) = 2

\* What cleanup logs when a call of its try block throws (line 222).
CaughtWarning(message) == "Failed to stop Virtual TestNet: " \o message

\* The errors of fs.readFile and JSON.parse.
ReadErrors ==
  {"ENOENT: open infra file", "EIO: read infra file", "Unexpected token in JSON"}

\* cleanup is past its call of readInfraForCurrentJob.
HasReadInfra == cpc \in {"parsing", "writing", "pushing", "pausing", "returned"}

\* C15: readInfraForCurrentJob never raises - no error of the read or of
\* the decoding reaches a caller - and it returns null when the file is
\* missing or malformed, and the stored snapshot (or null, when the read
\* itself fails) otherwise.
C15_ReadNeverRaises ==
  /\ \A e \in ReadErrors : CaughtWarning(e) \notin warnings /\ parsed.error # e
  /\ HasReadInfra =>
       IF infraFile.state # "stored"
       THEN /\ cleanupInfra = NoInfra
            /\ cpc = "returned"
            /\ warnings = {"No infrastructure information found to cleanup"}
       ELSE cleanupInfra \in {NoInfra, Infra(infraFile.networks)}
  /\ pc \in {"file", "line", "returned"} => infraInfo = Infra(infraFile.networks)

\* C15 witness: the snapshot file holds text that is not JSON; cleanup got
\* null, warned and returned, and the step ended well.
C15_Witness ==
  /\ infraFile = Malformed
  /\ HasReadInfra
  /\ cleanupInfra = NoInfra
  /\ warnings = {"No infrastructure information found to cleanup"}
  /\ proc = "exited"

(***************************************************************************)
(* Properties of the job: main step and post step (SpecJob).               *)
(***************************************************************************)
\* C16: when the snapshot could not be stored - the write failed, or the
\* directory of the file could not be made - run does not mark the step as
\* failed for it and goes on to setupTenderlyConfig.
C16_PersistFailureSwallowed ==
  (persist \in {"writeFailed", "dirFailed"} /\ rpc \in {"done", "exited"}) =>
    /\ setFailed \in {"", "Failed to create Tenderly config"}
    /\ configDone \/ setFailed = "Failed to create Tenderly config"

\* C17, in a state: the snapshot file was written at most once, and once
\* when storeInfrastructureInfo succeeded; the file holds what was written
\* then, up to the end of the post step.
C17_State ==
  /\ Len(infraWrites) <= 1
  /\ persist = "ok" <=> Len(infraWrites) = 1
  /\ infraWrites = <<>> => infraFile = NoFile
  /\ infraWrites # <<>> =>
       /\ infraFile = infraWrites[1]
       /\ infraFile = Stored(SnapshotNetworks(RangeOf(networkIds)))

\* C17, in a step: only storeInfrastructureInfo changes the snapshot file;
\* no step of cleanup does.
C17_Step ==
  /\ infraFile' # infraFile => rpc = "store" /\ rpc' = "config"
  /\ cpc # "none" => infraFile' = infraFile /\ infraWrites' = infraWrites

\* C17: the snapshot is written once, at provisioning, and never changed.
C17_WrittenOnce == []C17_State /\ [][C17_Step]_vars

\* C17 witness: a CD job whose post step read the snapshot, parsed the
\* logs, removed the scratch directory, wrote the artifact and pushed; the
\* snapshot file holds the two networks stored by the main step.
C17_Witness ==
  /\ proc = "exited"
  /\ mode = "CD"
  /\ infraWrites = <<Stored(<<Net1, Net12>>)>>
  /\ infraFile = Stored(<<Net1, Net12>>)
  /\ artifact.written
  /\ rmTask = "done"
  /\ execLog = PushSteps

\* The creations of the main step that gave a Virtual TestNet.
Created == {i \in 1..Len(creates) : creates[i] = "created"}

\* The stored snapshot holds the testnet of creation i.
InSnapshot(i) ==
  /\ infraFile.state = "stored"
  /\ \E n \in RangeOf(infraFile.networks) : n.networkId = networkIds[i]
  /\ networkIds[i] \in DOMAIN networkInfo
  /\ networkInfo[networkIds[i]] = i

\* cleanup has called stopVirtualTestNet for the testnet of creation i.
StopCalledFor(i) ==
  /\ InSnapshot(i)
  /\ Len(stops) = Len(cleanupInfra.networks)
  /\ \E k \in 1..Len(stops) : cleanupInfra.networks[k].networkId = networkIds[i]

\* The post step is over.
PostOver == proc \in {"exited", "crashed"}

\* C24: in CI mode, when the post step is over, every testnet the main
\* step created is in the stored snapshot and had its stop requested.
C24_CreatedAreStopped ==
  (mode = "CI" /\ PostOver) => \A i \in Created : StopCalledFor(i)

\* push has run git add . (line 242).
Staged == "git add ." \in RangeOf(execLog)

\* C25: in the post step, once push has staged files with git add ., the
\* git checkout of clearSensitiveData and the deletion of the scratch
\* directory are both over, and a failure of either does not end the
\* process: it is handled inside cleanup.
C25_SettledBeforeStaging ==
  /\ Staged => (checkout \in {"done", "failed"} /\ rmTask \in {"done", "failed"})
  /\ (checkout = "failed" \/ rmTask = "failed") =>
       (proc # "crashed" /\ warnings # {})

====
